---------------------------- MODULE Spec2Model ----------------------------
(***************************************************************************)
(* A model of zerver/lib/home.py: the helpers get_furthest_read_time,      *)
(* get_bot_types, promote_sponsoring_zulip_in_realm, get_billing_info and  *)
(* get_user_permission_info, and build_page_params_for_home_page_load,     *)
(* which is modelled one source statement group per action so that the     *)
(* order of its reads and writes is visible.                               *)
(*                                                                         *)
(* Python values: Optional[T] is a tuple, << >> for None and <<x>> for a   *)
(* value x; a dict is a function from its keys; a dataclass is a record.   *)
(***************************************************************************)
EXTENDS Integers, Sequences, FiniteSets

VARIABLES
    settings,             \* django.conf.settings, the flags home.py reads
    request,              \* the HttpRequest: the language of its path
    user_profile,         \* Optional[UserProfile]
    realm,                \* Realm
    display,              \* insecure_desktop_app, first_in_realm, prompt_for_invites, needs_tutorial
    narrow,               \* List[List[str]]
    narrow_stream,        \* Optional[Stream]
    narrow_topic,         \* Optional[str]
    event_state,          \* what the event-queue subsystem holds as initial state
    db,                   \* the shared data store
    now,                  \* the wall clock, time.time()
    queues,               \* the event queues the event-queue subsystem has allocated
    calls,                \* the calls made to collaborators, in order
    pc,                   \* the position of the build
    register_ret,         \* local of the build (line 144 / 160)
    furthest_read_time,   \* local (line 175)
    request_language,     \* local (line 177)
    two_fa_enabled,       \* local (line 183)
    customer,             \* local of get_billing_info (line 81)
    billing_info,         \* local (line 184)
    user_permission_info, \* local (line 185)
    page_params,          \* local (line 189)
    result,               \* the returned tuple (line 242)
    observed,             \* the data-store states the store went through during the build
    writes                \* the writes other sessions have made to the data store

vars == <<settings, request, user_profile, realm, display, narrow, narrow_stream,
          narrow_topic, event_state, db, now, queues, calls, pc, register_ret,
          furthest_read_time, request_language, two_fa_enabled, customer, billing_info,
          user_permission_info, page_params, result, observed, writes>>

inputs == <<settings, request, user_profile, realm, display, narrow, narrow_stream,
            narrow_topic, event_state, now>>

store == <<db, observed, writes>>

locals == <<register_ret, furthest_read_time, request_language, two_fa_enabled,
            customer, billing_info, user_permission_info, page_params, result>>

-----------------------------------------------------------------------------
(* Bounds of the model. *)

\* Message ids run from 1 to MaxMessageId.
MaxMessageId == 3

\* Writes other sessions make to the data store in one behaviour.
MaxWrites == 3

-----------------------------------------------------------------------------
(* Python values. *)

None == << >>

Some(x) == <<x>>

IsNone(o) == Len(o) = 0

Val(o) == o[1]

\* d[k] = v on a dict.
Put(d, k, v) == [x \in (DOMAIN d) \cup {k} |-> IF x = k THEN v ELSE d[x]]

EmptyDict == << >>


-----------------------------------------------------------------------------
(* The data store.  db is a record of tables:                              *)
(*   messages   : rows [id, recipient]               (zerver Message)      *)
(*   activities : rows [user, last_visit]            (UserActivity rows of *)
(*                the update-message-flag queries)                         *)
(*   customers  : rows [id, realm, sponsorship_pending]  (corporate)       *)
(*   plans      : rows [customer, status]            (CustomerPlan)        *)
(*   devices    : the users with a default second-factor device            *)
(* A datetime is [day, hour, minute, second, microsecond, utcoffset]: day  *)
(* counts days since 1970-01-01 and utcoffset is Optional minutes (None    *)
(* for a naive datetime).                                                  *)

\* UserProfile.BOT_TYPES, a dict kept in insertion order.
BOT_TYPES ==
    << [type_id |-> 1, name |-> "Generic bot"],
       [type_id |-> 2, name |-> "Incoming webhook"],
       [type_id |-> 3, name |-> "Outgoing webhook"],
       [type_id |-> 4, name |-> "Embedded bot"] >>

\* datetime.utctimetuple(): the offset is subtracted, the fields are
\* normalised, and the microseconds are not part of a time tuple.
utctimetuple(dt) ==
    LET offset == IF IsNone(dt.utcoffset) THEN 0 ELSE Val(dt.utcoffset)
        total  == dt.hour * 60 + dt.minute - offset
    IN  [tm_day  |-> dt.day + (total \div 1440),
         tm_hour |-> (total % 1440) \div 60,
         tm_min  |-> total % 60,
         tm_sec  |-> dt.second]

\* calendar.timegm(): the seconds since the epoch of a UTC time tuple.
timegm(t) == t.tm_day * 86400 + t.tm_hour * 3600 + t.tm_min * 60 + t.tm_sec

\* A Python number as seconds and microseconds: time.time() has a fraction,
\* an int has none.
Number(n) == [sec |-> n, usec |-> 0]

\* The instant of a datetime, in whole seconds and microseconds, for ordering.
InstantSeconds(dt) ==
    ((dt.day * 24 + dt.hour) * 60 + dt.minute
       - (IF IsNone(dt.utcoffset) THEN 0 ELSE Val(dt.utcoffset))) * 60 + dt.second

NotAfter(a, b) ==
    \/ InstantSeconds(a) < InstantSeconds(b)
    \/ InstantSeconds(a) = InstantSeconds(b) /\ a.microsecond <= b.microsecond

\* zerver.views.message_flags.get_latest_update_message_flag_activity: the
\* user's most recent update-message-flag activity row, or None.
get_latest_update_message_flag_activity(up) ==
    LET rows == {a \in db.activities : a.user = up.id}
    IN  IF rows = {} THEN None
        ELSE Some(CHOOSE a \in rows :
                     \A b \in rows : NotAfter(b.last_visit, a.last_visit))

get_furthest_read_time_skip_offset(up_opt) ==
    IF IsNone(up_opt) THEN Some(now)
    ELSE LET user_activity == get_latest_update_message_flag_activity(Val(up_opt))
         IN  IF IsNone(user_activity) THEN None
             ELSE LET lv == Val(user_activity).last_visit
                  IN  Some(Number(timegm([tm_day |-> lv.day, tm_hour |-> lv.hour,
                                          tm_min |-> lv.minute, tm_sec |-> lv.second])))

get_furthest_read_time(up_opt) ==
    IF IsNone(up_opt) THEN Some(now)
    ELSE LET user_activity == get_latest_update_message_flag_activity(Val(up_opt))
         IN  IF IsNone(user_activity) THEN None
             ELSE Some(Number(timegm(utctimetuple(Val(user_activity).last_visit))))

get_bot_types(up_opt) ==
    IF IsNone(up_opt) THEN << >>
    ELSE [i \in 1..Len(BOT_TYPES) |->
            [type_id |-> BOT_TYPES[i].type_id,
             name    |-> BOT_TYPES[i].name,
             allowed |-> BOT_TYPES[i].type_id \in Val(up_opt).allowed_bot_types]]

promote_sponsoring_zulip_in_realm(r) ==
    IF ~settings.PROMOTE_SPONSORING_ZULIP THEN FALSE
    ELSE r.plan_type \in {"STANDARD_FREE", "SELF_HOSTED"}

\* corporate.models.get_customer_by_realm: the realm's customer row, or None.
get_customer_by_realm(r) ==
    LET rows == {c \in db.customers : c.realm = r.string_id}
    IN  IF rows = {} THEN None ELSE Some(CHOOSE c \in rows : TRUE)

CustomerPlan_filter_any_customer(row) == db.plans

\* CustomerPlan.objects.filter(customer=customer)
CustomerPlan_filter(row) == {p \in db.plans : p.customer = row.id}

\* Lines 77-78: whether get_billing_info looks the realm's customer up.
billing_reads_customer(up_opt) ==
    /\ settings.CORPORATE_ENABLED
    /\ ~IsNone(up_opt)
    /\ Val(up_opt).has_billing_access

\* Lines 82-85: whether it goes on to the plan query.
billing_reads_plans(customer_opt) ==
    /\ ~IsNone(customer_opt)
    /\ ~Val(customer_opt).sponsorship_pending

get_billing_info_plans_for_guests(up_opt, customer_opt, plans_exist) ==
    [show_billing |-> FALSE,
     show_plans   |-> /\ settings.CORPORATE_ENABLED
                      /\ ~IsNone(up_opt)
                      /\ Val(up_opt).realm.plan_type = "LIMITED"]

\* get_billing_info, given what its two queries returned: customer_opt from
\* line 81 (None when the query is not made) and plans_exist from line 85
\* (FALSE when it is not made).
get_billing_info(up_opt, customer_opt, plans_exist) ==
    LET inside == settings.CORPORATE_ENABLED /\ ~IsNone(up_opt)
        show_billing ==
            IF inside /\ Val(up_opt).has_billing_access
            THEN IF ~IsNone(customer_opt)
                 THEN IF Val(customer_opt).sponsorship_pending THEN TRUE
                      ELSE IF plans_exist THEN TRUE
                      ELSE FALSE
                 ELSE FALSE
            ELSE FALSE
        show_plans ==
            IF inside /\ ~Val(up_opt).is_guest /\ Val(up_opt).realm.plan_type = "LIMITED"
            THEN TRUE
            ELSE FALSE
    IN  [show_billing |-> show_billing, show_plans |-> show_plans]

get_user_permission_info(up_opt) ==
    IF ~IsNone(up_opt)
    THEN [color_scheme   |-> Val(up_opt).color_scheme,
          is_guest       |-> Val(up_opt).is_guest,
          is_realm_owner |-> Val(up_opt).is_realm_owner,
          is_realm_admin |-> Val(up_opt).is_realm_admin,
          show_webathena |-> Val(up_opt).realm.webathena_enabled]
    ELSE [color_scheme   |-> "COLOR_SCHEME_AUTOMATIC",
          is_guest       |-> FALSE,
          is_realm_admin |-> FALSE,
          is_realm_owner |-> FALSE,
          show_webathena |-> FALSE]

-----------------------------------------------------------------------------
(* The collaborators of the build.  The event-queue subsystem is a black   *)
(* box: event_state is the initial-state payload it holds for the session  *)
(* (a user_settings sub-mapping and its other pass-through keys).          *)

Log(entry) == Append(calls, entry)

\* The queue id a registration allocates.
NewQueueId == Cardinality(queues) + 1

\* zerver.lib.events.do_events_register: allocates a queue and returns its
\* id with the initial-state payload.
do_events_register(up, narrow_terms) == Put(event_state, "queue_id", Some(NewQueueId))

\* zerver.lib.events.fetch_initial_state_data: the payload alone, under the
\* queue id it was given.
fetch_initial_state_data(up_opt, queue_id) == Put(event_state, "queue_id", queue_id)

\* zerver.lib.events.post_process_state: the payload's modelled keys are kept.
post_process_state(up_opt, ret, notification_settings_null) == ret

\* zerver.lib.request.get_request_notes: the notes kept for the request.
get_request_notes(req) == [client |-> req.client]

\* zerver.lib.i18n.get_and_set_request_language: the language of the request
\* path wins over the user's default language.
get_and_set_request_language(req, user_configured_language, path_language) ==
    IF ~IsNone(path_language) THEN Val(path_language) ELSE user_configured_language

\* django.utils.translation.get_language_from_path
get_language_from_path(req) == req.path_language

\* zerver.lib.i18n.get_language_translation_data
get_language_translation_data(language) == [language |-> language]

\* two_factor.utils.default_device
default_device(up_opt) ==
    IF ~IsNone(up_opt) /\ Val(up_opt).id \in db.devices THEN Some("device") ELSE None

\* bool(x) of an Optional object.
bool(o) == ~IsNone(o)

-----------------------------------------------------------------------------
(* The narrow override's query (lines 226-231):                            *)
(* Message.objects.filter(recipient=recipient).order_by("id").reverse()[0] *)

Message_filter(recipient) == {m \in db.messages : m.recipient = recipient}

RECURSIVE order_by_id(_)
order_by_id(rows) ==
    IF rows = {} THEN << >>
    ELSE LET first == CHOOSE m \in rows : \A o \in rows : m.id <= o.id
         IN  <<first>> \o order_by_id(rows \ {first})

reverse(seq) == [i \in 1..Len(seq) |-> seq[Len(seq) + 1 - i]]

narrow_max_message_id_oldest(recipient) ==
    LET rows == order_by_id(Message_filter(recipient))
    IN  IF Len(rows) = 0 THEN -1 ELSE rows[1].id

\* rows[0].id, with the IndexError of an empty query set caught (line 230).
narrow_max_message_id(recipient) ==
    LET rows == reverse(order_by_id(Message_filter(recipient)))
    IN  IF Len(rows) = 0 THEN -1 ELSE rows[1].id

\* [dict(operator=term[0], operand=term[1]) for term in narrow]
narrow_terms_as_dicts(terms) ==
    [i \in 1..Len(terms) |-> [operator |-> terms[i][1], operand |-> terms[i][2]]]

\* for field_name in register_ret.keys(): page_params[field_name] = ... (lines 220-221)
merge_nested(params, ret) == Put(params, "register_ret", ret)

merge(params, ret) ==
    [k \in (DOMAIN params) \cup (DOMAIN ret) |->
        IF k \in DOMAIN ret THEN ret[k] ELSE params[k]]

\* The body of "if narrow_stream is not None" (lines 225-238) on page_params.
narrow_override_keep_notifications(params, stream, topic, terms) ==
    LET p1 == Put(params, "narrow_stream", stream.name)
        p2 == IF ~IsNone(topic) THEN Put(p1, "narrow_topic", Val(topic)) ELSE p1
        p3 == Put(p2, "narrow", narrow_terms_as_dicts(terms))
    IN  Put(p3, "max_message_id", narrow_max_message_id(stream.recipient))

narrow_override(params, stream, topic, terms) ==
    LET p1 == Put(params, "narrow_stream", stream.name)
        p2 == IF ~IsNone(topic) THEN Put(p1, "narrow_topic", Val(topic)) ELSE p1
        p3 == Put(p2, "narrow", narrow_terms_as_dicts(terms))
        p4 == Put(p3, "max_message_id", narrow_max_message_id(stream.recipient))
    IN  Put(p4, "user_settings",
            Put(p4["user_settings"], "enable_desktop_notifications", FALSE))

-----------------------------------------------------------------------------
(* build_page_params_for_home_page_load, one action per statement group.   *)

\* Line 183.
two_fa_flag(up_opt) == settings.TWO_FACTOR_AUTHENTICATION_ENABLED /\ ~IsNone(up_opt)

device_lookup_made_always(flag) == TRUE

\* Line 213: "two_fa_enabled and bool(default_device(user_profile))" evaluates
\* its right operand only when the left one is true.
device_lookup_made(flag) == flag

is_spectator_never(up_opt) == FALSE

\* Lines 214 and 217: user_profile is None.
is_spectator(up_opt) == IsNone(up_opt)

returned_queue_id_fresh(ret) == Some(NewQueueId)

\* Line 242: register_ret["queue_id"].
returned_queue_id(ret) == ret["queue_id"]

\* Lines 141-153: an authenticated session registers an event queue.
Register ==
    /\ pc = "start"
    /\ ~IsNone(user_profile)
    /\ ~IsNone(get_request_notes(request).client)
    /\ register_ret' = do_events_register(Val(user_profile), narrow)
    /\ queues' = queues \cup {NewQueueId}
    /\ calls' = Log([op |-> "do_events_register", user_profile |-> user_profile,
                     client |-> Val(get_request_notes(request).client), narrow |-> narrow, queue_id |-> Some(NewQueueId)])
    /\ pc' = "registered"
    /\ UNCHANGED <<inputs, store, furthest_read_time, request_language,
                   two_fa_enabled, customer, billing_info, user_permission_info, page_params, result>>

\* Lines 141-143: the request of an authenticated session has no client and
\* "assert client is not None" raises AssertionError: the build ends there.
RegisterAssertionError ==
    /\ pc = "start"
    /\ ~IsNone(user_profile)
    /\ IsNone(get_request_notes(request).client)
    /\ pc' = "raised"
    /\ UNCHANGED <<inputs, store, queues, calls, locals>>

\* Lines 154-171: a spectator session only fetches the state.
FetchInitialState ==
    /\ pc = "start"
    /\ IsNone(user_profile)
    /\ register_ret' = fetch_initial_state_data(user_profile, None)
    /\ calls' = Log([op |-> "fetch_initial_state_data", user_profile |-> user_profile,
                     queue_id |-> None])
    /\ pc' = "fetched"
    /\ UNCHANGED <<inputs, store, queues, furthest_read_time, request_language,
                   two_fa_enabled, customer, billing_info, user_permission_info, page_params, result>>

\* Line 173.
PostProcessState ==
    /\ pc = "fetched"
    /\ register_ret' = post_process_state(user_profile, register_ret, FALSE)
    /\ calls' = Log([op |-> "post_process_state", user_profile |-> user_profile,
                     notification_settings_null |-> FALSE])
    /\ pc' = "registered"
    /\ UNCHANGED <<inputs, store, queues, furthest_read_time, request_language,
                   two_fa_enabled, customer, billing_info, user_permission_info, page_params, result>>

\* Line 175.
FurthestReadTime ==
    /\ pc = "registered"
    /\ furthest_read_time' = get_furthest_read_time(user_profile)
    /\ pc' = "read_time"
    /\ UNCHANGED <<inputs, store, queues, calls, register_ret, request_language,
                   two_fa_enabled, customer, billing_info, user_permission_info, page_params, result>>

\* Lines 177-181.
RequestLanguage ==
    /\ pc = "read_time"
    /\ request_language' =
          get_and_set_request_language(request,
                                       register_ret["user_settings"]["default_language"],
                                       get_language_from_path(request))
    /\ pc' = "language"
    /\ UNCHANGED <<inputs, store, queues, calls, register_ret, furthest_read_time,
                   two_fa_enabled, customer, billing_info, user_permission_info, page_params, result>>

\* Line 183.
TwoFaEnabled ==
    /\ pc = "language"
    /\ two_fa_enabled' = two_fa_flag(user_profile)
    /\ pc' = "two_fa"
    /\ UNCHANGED <<inputs, store, queues, calls, register_ret, furthest_read_time,
                   request_language, customer, billing_info, user_permission_info, page_params, result>>

\* Line 184, get_billing_info as far as its first query (lines 75-81).
BillingCustomer ==
    /\ pc = "two_fa"
    /\ customer' = IF billing_reads_customer(user_profile)
                   THEN get_customer_by_realm(Val(user_profile).realm)
                   ELSE None
    /\ pc' = "customer"
    /\ UNCHANGED <<inputs, store, queues, calls, register_ret, furthest_read_time,
                   request_language, two_fa_enabled, billing_info, user_permission_info,
                   page_params, result>>

\* Lines 82-94, the second query of get_billing_info and its result, and
\* line 185.  The plan query is a read of the store of its own: another
\* session may have written since the customer was read.
BillingAndPermissions ==
    /\ pc = "customer"
    /\ billing_info' =
          get_billing_info(user_profile, customer,
                           IF billing_reads_plans(customer)
                           THEN CustomerPlan_filter(Val(customer)) # {}
                           ELSE FALSE)
    /\ user_permission_info' = get_user_permission_info(user_profile)
    /\ pc' = "billing"
    /\ UNCHANGED <<inputs, store, queues, calls, register_ret, furthest_read_time,
                   request_language, two_fa_enabled, customer, page_params, result>>

\* Lines 189-218.  default_device is called only when two_fa_enabled is true
\* ("and" short-circuits).
PageParams ==
    /\ pc = "billing"
    /\ page_params' =
          [test_suite               |-> settings.TEST_SUITE,
           insecure_desktop_app     |-> display.insecure_desktop_app,
           login_page               |-> settings.HOME_NOT_LOGGED_IN,
           warn_no_email            |-> settings.WARN_NO_EMAIL,
           search_pills_enabled     |-> settings.SEARCH_PILLS_ENABLED,
           corporate_enabled        |-> settings.CORPORATE_ENABLED,
           language_list            |-> <<"de", "en">>,
           needs_tutorial           |-> display.needs_tutorial,
           first_in_realm           |-> display.first_in_realm,
           prompt_for_invites       |-> display.prompt_for_invites,
           furthest_read_time       |-> furthest_read_time,
           bot_types                |-> get_bot_types(user_profile),
           two_fa_enabled           |-> two_fa_enabled,
           apps_page_url            |-> "/apps/",
           show_billing             |-> billing_info.show_billing,
           promote_sponsoring_zulip |-> promote_sponsoring_zulip_in_realm(realm),
           show_plans               |-> billing_info.show_plans,
           show_webathena           |-> user_permission_info.show_webathena,
           two_fa_enabled_user      |-> /\ two_fa_enabled
                                        /\ device_lookup_made(two_fa_enabled)
                                        /\ bool(default_device(user_profile)),
           is_spectator             |-> is_spectator(user_profile),
           no_event_queue           |-> is_spectator(user_profile)]
    /\ calls' = IF device_lookup_made(two_fa_enabled)
                THEN Log([op |-> "default_device", user_profile |-> user_profile])
                ELSE calls
    /\ pc' = "params"
    /\ UNCHANGED <<inputs, store, queues, register_ret, furthest_read_time,
                   request_language, two_fa_enabled, customer, billing_info, user_permission_info,
                   result>>

\* Lines 220-221.
Merge ==
    /\ pc = "params"
    /\ page_params' = merge(page_params, register_ret)
    /\ pc' = "merged"
    /\ UNCHANGED <<inputs, store, queues, calls, register_ret, furthest_read_time,
                   request_language, two_fa_enabled, customer, billing_info, user_permission_info,
                   result>>

\* Lines 223-238.  page_params["user_settings"] is the very dict of
\* register_ret["user_settings"], so line 238 writes to both.
NarrowOverride ==
    /\ pc = "merged"
    /\ ~IsNone(narrow_stream)
    /\ page_params' = narrow_override(page_params, Val(narrow_stream), narrow_topic, narrow)
    /\ register_ret' =
          [register_ret EXCEPT !["user_settings"] = page_params'["user_settings"]]
    /\ calls' = Log([op |-> "Message.objects.filter",
                     recipient |-> Val(narrow_stream).recipient])
    /\ pc' = "narrowed"
    /\ UNCHANGED <<inputs, store, queues, furthest_read_time, request_language,
                   two_fa_enabled, customer, billing_info, user_permission_info, result>>

\* Line 223, the condition false.
NoNarrow ==
    /\ pc = "merged"
    /\ IsNone(narrow_stream)
    /\ pc' = "narrowed"
    /\ UNCHANGED <<inputs, store, queues, calls, locals>>

\* Line 240.
TranslationData ==
    /\ pc = "narrowed"
    /\ page_params' = Put(page_params, "translation_data",
                          get_language_translation_data(request_language))
    /\ pc' = "translated"
    /\ UNCHANGED <<inputs, store, queues, calls, register_ret, furthest_read_time,
                   request_language, two_fa_enabled, customer, billing_info, user_permission_info,
                   result>>

\* Line 242.
Return ==
    /\ pc = "translated"
    /\ result' = Some([queue_id |-> returned_queue_id(register_ret),
                       page_params |-> page_params])
    /\ pc' = "done"
    /\ UNCHANGED <<inputs, store, queues, calls, register_ret, furthest_read_time,
                   request_language, two_fa_enabled, customer, billing_info, user_permission_info,
                   page_params>>

Build ==
    \/ Register
    \/ RegisterAssertionError
    \/ FetchInitialState
    \/ PostProcessState
    \/ FurthestReadTime
    \/ RequestLanguage
    \/ TwoFaEnabled
    \/ BillingCustomer
    \/ BillingAndPermissions
    \/ PageParams
    \/ Merge
    \/ NarrowOverride
    \/ NoNarrow
    \/ TranslationData
    \/ Return

-----------------------------------------------------------------------------
(* The inputs.                                                             *)

Realm(plan_type) ==
    [string_id |-> "zulip", plan_type |-> plan_type, webathena_enabled |-> TRUE]

UserProfile(has_billing_access, is_guest, plan_type) ==
    [id                 |-> 1,
     has_billing_access |-> has_billing_access,
     is_guest           |-> is_guest,
     is_realm_admin     |-> FALSE,
     is_realm_owner     |-> FALSE,
     color_scheme       |-> "COLOR_SCHEME_NIGHT",
     allowed_bot_types  |-> IF is_guest THEN {} ELSE {1, 2},
     realm              |-> Realm(plan_type)]

Settings(corporate_enabled, two_factor) ==
    [CORPORATE_ENABLED                 |-> corporate_enabled,
     TWO_FACTOR_AUTHENTICATION_ENABLED |-> two_factor,
     PROMOTE_SPONSORING_ZULIP          |-> TRUE,
     TEST_SUITE                        |-> FALSE,
     HOME_NOT_LOGGED_IN                |-> "/login/",
     WARN_NO_EMAIL                     |-> FALSE,
     SEARCH_PILLS_ENABLED              |-> FALSE]

Request(path_language, client) == [path_language |-> path_language, client |-> client]

\* The requests of a build: with or without a language in the path, and
\* one that reached the build with no client in its notes.
Requests ==
    { Request(None, Some("website")), Request(Some("de"), Some("website")),
      Request(None, None) }

Display ==
    [insecure_desktop_app |-> FALSE, first_in_realm |-> FALSE,
     prompt_for_invites |-> FALSE, needs_tutorial |-> TRUE]

\* The stream of a narrow, and another stream.
Denmark == [name |-> "Denmark", recipient |-> 10]

Verona == [name |-> "Verona", recipient |-> 20]

Datetime(day, hour, minute, second, microsecond, utcoffset) ==
    [day |-> day, hour |-> hour, minute |-> minute, second |-> second,
     microsecond |-> microsecond, utcoffset |-> utcoffset]

\* Every Message table with ids in 1..MaxMessageId, each id absent, addressed
\* to Denmark's recipient or addressed to the other recipient.
MessageTables ==
    { {[id |-> i, recipient |-> f[i]] : i \in {j \in 1..MaxMessageId : f[j] # 0}} :
        f \in [1..MaxMessageId -> {0, Denmark.recipient, Verona.recipient}] }

\* The payloads the event-queue subsystem may hold.  Its keys are its own:
\* none is a name the build computes before the merge or translation_data.
\* One payload's user_settings has no enable_desktop_notifications key.
\* The last payload also holds narrow_stream and narrow, names that a narrow
\* build writes after the merge, as max_message_id is.
EventStates ==
    { [user_settings |-> [default_language |-> "en", enable_desktop_notifications |-> FALSE],
       max_message_id |-> 7],
      [user_settings |-> [default_language |-> "en", enable_desktop_notifications |-> TRUE],
       max_message_id |-> 7],
      [user_settings |-> [default_language |-> "en"],
       max_message_id |-> 7],
      [user_settings |-> [default_language |-> "de", enable_desktop_notifications |-> TRUE],
       max_message_id |-> 7,
       narrow_stream |-> "Verona",
       narrow |-> <<[operator |-> "is", operand |-> "starred"]>>] }

\* (narrow, narrow_stream, narrow_topic) as the home view resolves them.
Narrows ==
    { <<<< >>, None, None>>,
      <<<< <<"is", "private">> >>, None, Some("lunch")>>,
      <<<< <<"stream", "Denmark">> >>, Some(Denmark), None>>,
      <<<< <<"stream", "Denmark">>, <<"topic", "lunch">> >>, Some(Denmark), Some("lunch")>> }

EmptyDb ==
    [messages |-> {}, activities |-> {}, customers |-> {}, plans |-> {}, devices |-> {}]

LastVisit == Datetime(1, 23, 30, 15, 250000, Some(-60))

BuildBillingTables ==
    { <<{}, {}>>,
      <<{[id |-> 1, realm |-> "zulip", sponsorship_pending |-> FALSE]},
        {[customer |-> 1, status |-> "ACTIVE"]}>> }

InitLocals ==
    /\ queues = {}
    /\ calls = << >>
    /\ register_ret = EmptyDict
    /\ furthest_read_time = None
    /\ request_language = ""
    /\ two_fa_enabled = FALSE
    /\ customer = None
    /\ billing_info = [show_billing |-> FALSE, show_plans |-> FALSE]
    /\ user_permission_info = get_user_permission_info(None)
    /\ page_params = EmptyDict
    /\ result = None

\* One build of the home page, alone on the data store.
Init ==
    /\ settings \in {Settings(c, t) : c \in BOOLEAN, t \in BOOLEAN}
    /\ request \in Requests
    /\ user_profile \in {None} \cup
                        {Some(UserProfile(h, g, "LIMITED")) : h \in BOOLEAN, g \in BOOLEAN}
    /\ realm = IF IsNone(user_profile) THEN Realm("LIMITED") ELSE Val(user_profile).realm
    /\ display = Display
    /\ \E n \in Narrows :
          /\ narrow = n[1]
          /\ narrow_stream = n[2]
          /\ narrow_topic = n[3]
    /\ event_state \in EventStates
    /\ now = [sec |-> 172800, usec |-> 500000]
    /\ \E m \in MessageTables, b \in BuildBillingTables,
          a \in {{}, {[user |-> 1, last_visit |-> LastVisit]}},
          d \in IF IsNone(user_profile) THEN {{}} ELSE {{}, {1}} :
          db = [messages |-> m, activities |-> a, customers |-> b[1], plans |-> b[2],
                devices |-> d]
    /\ observed = {db}
    /\ writes = 0
    /\ pc = "start"
    /\ InitLocals

Next == Build

Spec == Init /\ [][Next]_vars

-----------------------------------------------------------------------------
(* Properties of one build (specification Spec).                           *)

Built == pc = "done"

Snapshot == Val(result).page_params

AfterMerge == {"merged", "narrowed", "translated", "done"}

AfterOverride == {"narrowed", "translated", "done"}

AfterPageParams == {"params"} \cup AfterMerge

Has(d, k) == k \in DOMAIN d

IsEventQueueCall(c) ==
    c.op \in {"do_events_register", "fetch_initial_state_data", "post_process_state"}

IsDeviceLookup(c) == c.op = "default_device"

IsMessageLookup(c) == c.op = "Message.objects.filter"

EventQueueCalls == SelectSeq(calls, IsEventQueueCall)

\* The ids of the messages addressed to the narrow stream's recipient.
NarrowIds == {m.id : m \in {x \in db.messages : x.recipient = Val(narrow_stream).recipient}}

\* C3: in a build with a narrow stream the override runs after the merge
\* and nothing later undoes it: no message lookup is made before the merge is
\* done, and from the override on, and in the returned snapshot,
\* user_settings.enable_desktop_notifications is false and narrow_stream,
\* narrow and max_message_id hold the override's values, whatever the
\* registration/fetch result held under those keys.
C3_NarrowOverrideIsAuthoritative ==
    /\ (pc \notin AfterOverride) => SelectSeq(calls, IsMessageLookup) = << >>
    /\ (~IsNone(narrow_stream) /\ pc \in AfterOverride) =>
          /\ Has(page_params, "user_settings")
          /\ Has(page_params["user_settings"], "enable_desktop_notifications")
          /\ page_params["user_settings"]["enable_desktop_notifications"] = FALSE
          /\ register_ret["user_settings"] = page_params["user_settings"]
          /\ page_params["user_settings"]["default_language"]
                = event_state["user_settings"]["default_language"]
          /\ Has(page_params, "narrow_stream")
          /\ page_params["narrow_stream"] = Val(narrow_stream).name
          /\ Has(page_params, "narrow")
          /\ Len(page_params["narrow"]) = Len(narrow)
          /\ \A i \in 1..Len(narrow) :
                /\ page_params["narrow"][i].operator = narrow[i][1]
                /\ page_params["narrow"][i].operand = narrow[i][2]
          /\ Has(page_params, "max_message_id")
          /\ page_params["max_message_id"] \in NarrowIds \cup {-1}
          /\ \A i \in NarrowIds : i <= page_params["max_message_id"]
          /\ Built => Snapshot = page_params

C3_Witness ==
    /\ Built
    /\ ~IsNone(narrow_stream)
    /\ Has(event_state["user_settings"], "enable_desktop_notifications")
    /\ event_state["user_settings"]["enable_desktop_notifications"] = TRUE
    /\ Has(event_state, "narrow_stream")
    /\ event_state["narrow_stream"] # Snapshot["narrow_stream"]
    /\ event_state["max_message_id"] # Snapshot["max_message_id"]
    /\ Snapshot["user_settings"]["enable_desktop_notifications"] = FALSE

\* C4: a build without identity and without narrow returns a null queue id
\* and a snapshot with is_spectator = true, no_event_queue = true and
\* bot_types = []; a build with identity has both flags false.
C4_SpectatorSnapshot ==
    Built =>
       /\ (IsNone(user_profile) /\ IsNone(narrow_stream)) =>
             /\ Val(result).queue_id = None
             /\ Snapshot["is_spectator"] = TRUE
             /\ Snapshot["no_event_queue"] = TRUE
             /\ Snapshot["bot_types"] = << >>
       /\ ~IsNone(user_profile) =>
             /\ Snapshot["is_spectator"] = FALSE
             /\ Snapshot["no_event_queue"] = FALSE

C4_Witness ==
    /\ Built
    /\ IsNone(user_profile)
    /\ IsNone(narrow_stream)
    /\ narrow # << >>
    /\ Val(result).queue_id = None
    /\ Snapshot["is_spectator"] = TRUE

\* C5: the max_message_id the override writes is the greatest id among the
\* messages addressed to the stream's recipient, -1 when there is none, and
\* applying the override once more to the snapshot leaves it as it is.
C5_MaxMessageId ==
    (~IsNone(narrow_stream) /\ pc \in AfterOverride) =>
       /\ Has(page_params, "max_message_id")
       /\ NarrowIds # {} =>
             /\ page_params["max_message_id"] \in NarrowIds
             /\ \A i \in NarrowIds : i <= page_params["max_message_id"]
       /\ NarrowIds = {} => page_params["max_message_id"] = -1
       /\ narrow_override(page_params, Val(narrow_stream), narrow_topic,
                          narrow)["max_message_id"] = page_params["max_message_id"]

C5_Witness ==
    /\ Built
    /\ ~IsNone(narrow_stream)
    /\ Cardinality(NarrowIds) >= 2
    /\ \E m \in db.messages : m.recipient = Verona.recipient /\ m.id > Snapshot["max_message_id"]
    /\ Snapshot["max_message_id"] \in NarrowIds

\* C8: every build past the client assertion of line 143 invokes exactly
\* one event-queue operation, once: with identity it calls
\* do_events_register, never fetch_initial_state_data, and returns the
\* queue id the registration allocated; without identity it calls
\* fetch_initial_state_data with no identity and no queue id, then
\* post_process_state with False before page_params exists, never
\* registers, and no queue is ever allocated.  A request that fails the
\* assertion is no build: nothing is called, allocated or returned.
C8_OneEventQueueOperation ==
    /\ ~IsNone(user_profile) =>
          /\ EventQueueCalls = IF pc \in {"start", "raised"} THEN << >> ELSE <<calls[1]>>
          /\ pc = "raised" <=> (pc # "start" /\ IsNone(request.client))
          /\ pc = "raised" =>
                /\ queues = {}
                /\ result = None
          /\ pc \notin {"start", "raised"} =>
                /\ calls[1].op = "do_events_register"
                /\ calls[1].user_profile = user_profile
                /\ queues = {Val(calls[1].queue_id)}
          /\ Built => Val(result).queue_id = calls[1].queue_id
    /\ IsNone(user_profile) =>
          /\ queues = {}
          /\ Len(EventQueueCalls) = (CASE pc = "start" -> 0 [] pc = "fetched" -> 1 [] OTHER -> 2)
          /\ EventQueueCalls = SubSeq(calls, 1, Len(EventQueueCalls))
          /\ Len(EventQueueCalls) >= 1 =>
                /\ calls[1].op = "fetch_initial_state_data"
                /\ calls[1].user_profile = None
                /\ calls[1].queue_id = None
          /\ Len(EventQueueCalls) = 2 =>
                /\ calls[2].op = "post_process_state"
                /\ calls[2].notification_settings_null = FALSE
          /\ Len(EventQueueCalls) < 2 => page_params = EmptyDict

C8_Witness ==
    /\ Built
    /\ ~IsNone(user_profile)
    /\ Val(result).queue_id = Some(1)
    /\ queues = {1}
    /\ Len(EventQueueCalls) = 1

\* C9: without a narrow stream the override does nothing, even with narrow
\* terms or a topic: from the merge on every key of the registration/fetch
\* result is a top-level key of page_params with the value the event-queue
\* subsystem gave it, no narrow_stream or narrow_topic key is added and no
\* message lookup is made; with a narrow stream and no topic narrow_stream
\* is written and narrow_topic is not.
C9_NoNarrowIsNoOp ==
    /\ (IsNone(narrow_stream) /\ pc \in AfterMerge) =>
          /\ \A k \in DOMAIN register_ret :
                Has(page_params, k) /\ page_params[k] = register_ret[k]
          /\ \A k \in DOMAIN event_state :
                Has(page_params, k) /\ page_params[k] = event_state[k]
          /\ Has(page_params, "narrow_stream") <=> Has(event_state, "narrow_stream")
          /\ ~Has(page_params, "narrow_topic")
          /\ SelectSeq(calls, IsMessageLookup) = << >>
          /\ Built => Snapshot = page_params
    /\ (~IsNone(narrow_stream) /\ IsNone(narrow_topic) /\ pc \in AfterOverride) =>
          /\ Has(page_params, "narrow_stream")
          /\ page_params["narrow_stream"] = Val(narrow_stream).name
          /\ ~Has(page_params, "narrow_topic")

C9_Witness ==
    /\ Built
    /\ IsNone(narrow_stream)
    /\ narrow # << >>
    /\ ~IsNone(narrow_topic)
    /\ Has(Snapshot["user_settings"], "enable_desktop_notifications")
    /\ Snapshot["user_settings"]["enable_desktop_notifications"] = TRUE
    /\ ~Has(Snapshot, "narrow_stream")

\* C10: two_fa_enabled is (the two-factor setting and identity present),
\* two_fa_enabled_user is (two_fa_enabled and the identity has a default
\* device), and the device lookup is made at most once, only after
\* two_fa_enabled was computed and only when it is true.
C10_TwoFactor ==
    LET lookups == SelectSeq(calls, IsDeviceLookup)
        enabled == settings.TWO_FACTOR_AUTHENTICATION_ENABLED /\ ~IsNone(user_profile)
    IN  /\ Len(lookups) <= 1
        /\ Len(lookups) = 1 => (pc \in AfterPageParams /\ two_fa_enabled /\ enabled)
        /\ pc \in AfterPageParams =>
              /\ page_params["two_fa_enabled"] = enabled
              /\ page_params["two_fa_enabled_user"]
                    = (enabled /\ Val(user_profile).id \in db.devices)
              /\ (Len(lookups) = 1) <=> enabled
              /\ ~enabled => page_params["two_fa_enabled_user"] = FALSE

C10_Witness ==
    /\ Built
    /\ settings.TWO_FACTOR_AUTHENTICATION_ENABLED
    /\ ~IsNone(user_profile)
    /\ Val(user_profile).id \in db.devices
    /\ Snapshot["two_fa_enabled_user"] = TRUE
    /\ Len(SelectSeq(calls, IsDeviceLookup)) = 1

-----------------------------------------------------------------------------
(* get_billing_info alone (specification SpecBilling): every combination   *)
(* of CORPORATE_ENABLED, identity, billing access, guest flag, plan type,  *)
(* customer row, sponsorship_pending and plans, beside the customer and    *)
(* plans of another realm.                                                 *)

PlanTypes == {"SELF_HOSTED", "LIMITED", "STANDARD", "STANDARD_FREE"}

PlanStatuses == {"ACTIVE", "ENDED"}

\* The customer and plan tables: the realm's customer (or none) with one plan
\* of each status of a set, and another realm's customer (or none) with its plan.
BillingTables ==
    { <<own \cup other, own_plans \cup other_plans>> :
         own \in {{}} \cup {{[id |-> 1, realm |-> "zulip", sponsorship_pending |-> sp]} :
                              sp \in BOOLEAN},
         own_plans \in {{[customer |-> 1, status |-> st] : st \in sts} : sts \in SUBSET PlanStatuses},
         other \in {{}, {[id |-> 2, realm |-> "lear", sponsorship_pending |-> TRUE]}},
         other_plans \in {{}, {[customer |-> 2, status |-> "ACTIVE"]}} }

\* A plan row belongs to a customer row.
WellFormedBilling(b) == \A p \in b[2] : \E c \in b[1] : c.id = p.customer

InitBilling ==
    /\ settings \in {Settings(c, FALSE) : c \in BOOLEAN}
    /\ request = Request(None, Some("website"))
    /\ user_profile \in {None} \cup
                        {Some(UserProfile(h, g, p)) : h \in BOOLEAN, g \in BOOLEAN, p \in PlanTypes}
    /\ realm = IF IsNone(user_profile) THEN Realm("LIMITED") ELSE Val(user_profile).realm
    /\ display = Display
    /\ narrow = << >>
    /\ narrow_stream = None
    /\ narrow_topic = None
    /\ event_state \in {e \in EventStates : ~Has(e, "narrow")}
    /\ now = [sec |-> 172800, usec |-> 500000]
    /\ \E b \in {t \in BillingTables : WellFormedBilling(t)} :
          db = [EmptyDb EXCEPT !.customers = b[1], !.plans = b[2]]
    /\ observed = {db}
    /\ writes = 0
    /\ pc = "two_fa"
    /\ InitLocals

NextBilling == BillingCustomer \/ BillingAndPermissions

SpecBilling == InitBilling /\ [][NextBilling]_vars

BillingReturned == pc = "billing"

Returned == pc = "returned"

\* The customer rows of the identity's realm in data-store state S.
RealmCustomers(S) ==
    IF IsNone(user_profile) THEN {}
    ELSE {c \in S.customers : c.realm = Val(user_profile).realm.string_id}

BillingAccess ==
    /\ settings.CORPORATE_ENABLED
    /\ ~IsNone(user_profile)
    /\ Val(user_profile).has_billing_access

\* C1, as stated: show_billing is true exactly when CORPORATE_ENABLED,
\* identity present, has_billing_access, a customer row exists and
\* (sponsorship_pending or the customer has at least one ACTIVE plan).
C1_ShowBillingNeedsActivePlan ==
    BillingReturned =>
       (billing_info.show_billing <=>
           /\ BillingAccess
           /\ \E c \in RealmCustomers(db) :
                 \/ c.sponsorship_pending
                 \/ \E p \in db.plans : p.customer = c.id /\ p.status = "ACTIVE")

\* C1, amended: show_billing is true exactly when CORPORATE_ENABLED,
\* identity present, has_billing_access, a customer row exists and
\* (sponsorship_pending or the customer has at least one plan, of any
\* status); a missing customer row gives false.
C1_ShowBilling ==
    BillingReturned =>
       /\ billing_info.show_billing <=>
             /\ BillingAccess
             /\ \E c \in RealmCustomers(db) :
                   \/ c.sponsorship_pending
                   \/ \E p \in db.plans : p.customer = c.id
       /\ RealmCustomers(db) = {} => billing_info.show_billing = FALSE

C1_Witness ==
    /\ BillingReturned
    /\ billing_info.show_billing = TRUE
    /\ \E c \in RealmCustomers(db) :
          /\ ~c.sponsorship_pending
          /\ \E p \in db.plans : p.customer = c.id
          /\ \A p \in db.plans : p.customer = c.id => p.status = "ENDED"

\* C2: show_plans is true exactly when CORPORATE_ENABLED, identity present,
\* not a guest and the realm's plan type is LIMITED, whatever the billing
\* access and the customer and plan rows; a guest of a LIMITED realm gets
\* false, a non-guest without billing access gets show_billing = false and
\* show_plans = true there, and no identity gets both false.
C2_ShowPlans ==
    BillingReturned =>
       /\ billing_info.show_plans <=>
             /\ settings.CORPORATE_ENABLED
             /\ ~IsNone(user_profile)
             /\ ~Val(user_profile).is_guest
             /\ Val(user_profile).realm.plan_type = "LIMITED"
       /\ IsNone(user_profile) =>
             billing_info = [show_billing |-> FALSE, show_plans |-> FALSE]
       /\ (/\ settings.CORPORATE_ENABLED
           /\ ~IsNone(user_profile)
           /\ ~Val(user_profile).is_guest
           /\ ~Val(user_profile).has_billing_access
           /\ Val(user_profile).realm.plan_type = "LIMITED") =>
             billing_info = [show_billing |-> FALSE, show_plans |-> TRUE]

C2_Witness ==
    /\ BillingReturned
    /\ settings.CORPORATE_ENABLED
    /\ ~IsNone(user_profile)
    /\ Val(user_profile).is_guest
    /\ Val(user_profile).has_billing_access
    /\ Val(user_profile).realm.plan_type = "LIMITED"
    /\ billing_info.show_billing = TRUE
    /\ billing_info.show_plans = FALSE

-----------------------------------------------------------------------------
(* get_furthest_read_time alone (specification SpecRead).                  *)

Datetimes ==
    { Datetime(d, h, m, sec, us, off) :
         d \in {0, 1}, h \in {0, 23}, m \in {0, 59}, sec \in {0, 59}, us \in {0, 999999},
         off \in {None, Some(0), Some(330), Some(-60)} }

\* The activity tables: none or one or two rows of the identity, beside a
\* row of another user.
ActivityTables ==
    {{}} \cup
    { {[user |-> 1, last_visit |-> t]} \cup more :
         t \in Datetimes,
         more \in { {}, {[user |-> 2, last_visit |-> LastVisit]},
                    {[user |-> 1, last_visit |-> LastVisit]} } } \cup
    { {[user |-> 2, last_visit |-> LastVisit]} }

InitRead ==
    /\ settings = Settings(FALSE, FALSE)
    /\ request = Request(None, Some("website"))
    /\ user_profile \in {None, Some(UserProfile(FALSE, FALSE, "LIMITED"))}
    /\ realm = Realm("LIMITED")
    /\ display = Display
    /\ narrow = << >>
    /\ narrow_stream = None
    /\ narrow_topic = None
    /\ event_state \in {e \in EventStates : ~Has(e, "narrow")}
    /\ now \in {[sec |-> 172800, usec |-> 500000], [sec |-> 0, usec |-> 0]}
    /\ \E a \in ActivityTables : db = [EmptyDb EXCEPT !.activities = a]
    /\ observed = {db}
    /\ writes = 0
    /\ pc = "call"
    /\ InitLocals

CallGetFurthestReadTime ==
    /\ pc = "call"
    /\ furthest_read_time' = get_furthest_read_time(user_profile)
    /\ pc' = "returned"
    /\ UNCHANGED <<inputs, store, queues, calls, register_ret, request_language,
                   two_fa_enabled, customer, billing_info, user_permission_info, page_params, result>>

NextRead == CallGetFurthestReadTime

SpecRead == InitRead /\ [][NextRead]_vars

\* The identity's activity rows in data-store state S.
UserActivities(S) ==
    IF IsNone(user_profile) THEN {} ELSE {a \in S.activities : a.user = Val(user_profile).id}

\* The UTC epoch second of the identity's latest visit in S, as a set: empty
\* without a row.
LatestVisitSeconds(S) ==
    { InstantSeconds(a.last_visit) :
        a \in {x \in UserActivities(S) :
                 \A y \in UserActivities(S) :
                    InstantSeconds(y.last_visit) <= InstantSeconds(x.last_visit)} }

\* C7: without identity get_furthest_read_time returns the wall-clock time,
\* never None; with identity and no activity row it returns None; with
\* identity and a row it returns the UTC epoch second of the latest row's
\* last visit, never None.
C7_FurthestReadTime ==
    Returned =>
       /\ IsNone(user_profile) => furthest_read_time = Some(now)
       /\ (~IsNone(user_profile) /\ UserActivities(db) = {}) => furthest_read_time = None
       /\ (~IsNone(user_profile) /\ UserActivities(db) # {}) =>
             /\ ~IsNone(furthest_read_time)
             /\ Val(furthest_read_time).usec = 0
             /\ Val(furthest_read_time).sec \in LatestVisitSeconds(db)

C7_Witness ==
    /\ Returned
    /\ ~IsNone(user_profile)
    /\ \E a \in UserActivities(db) :
          /\ a.last_visit.utcoffset = Some(330)
          /\ a.last_visit.hour = 0
          /\ a.last_visit.day = 0
          /\ a.last_visit.microsecond = 999999
          /\ furthest_read_time = Some(Number(InstantSeconds(a.last_visit)))
          /\ Val(furthest_read_time).sec < 0

-----------------------------------------------------------------------------
(* The build beside other sessions that write to the data store            *)
(* (specification SpecConcurrent).  The build takes no lock and opens no   *)
(* transaction, so a write may fall between any two of its statements.     *)

LaterVisit == Datetime(2, 8, 0, 0, 0, Some(0))

Building == pc \notin {"idle", "done", "raised"}

\* A write of another session: the store's new state is one the build may
\* read from.
Written(new_db) ==
    /\ writes < MaxWrites
    /\ pc \notin {"done", "raised"}
    /\ new_db # db
    /\ db' = new_db
    /\ writes' = writes + 1
    /\ observed' = IF Building THEN observed \cup {new_db} ELSE observed
    /\ UNCHANGED <<inputs, queues, calls, pc, locals>>

\* Another session sends a message; ids are allocated in order.
SendMessage ==
    \E r \in {Denmark.recipient, Verona.recipient} :
       /\ Cardinality(db.messages) < MaxMessageId
       /\ Written([db EXCEPT !.messages =
                      @ \cup {[id |-> Cardinality(db.messages) + 1, recipient |-> r]}])

\* The identity marks messages as read in another session: its
\* update-message-flag activity row is created or its last visit moved on.
RecordActivity ==
    \E t \in {LastVisit, LaterVisit} :
       /\ \A a \in db.activities : a.user = 1 => ~NotAfter(t, a.last_visit)
       /\ Written([db EXCEPT !.activities =
                      {a \in @ : a.user # 1} \cup {[user |-> 1, last_visit |-> t]}])

\* The realm's billing changes: a customer row is created, sponsorship is
\* requested, a plan is added, the plans are removed, or the plans are
\* removed and sponsorship requested in one write.
BillingChange ==
    \/ \E sp \in BOOLEAN :
          /\ db.customers = {}
          /\ Written([db EXCEPT !.customers =
                         {[id |-> 1, realm |-> "zulip", sponsorship_pending |-> sp]}])
    \/ /\ db.customers # {}
       /\ Written([db EXCEPT !.customers =
                      {[c EXCEPT !.sponsorship_pending = TRUE] : c \in @}])
    \/ /\ db.customers # {}
       /\ Written([db EXCEPT !.plans = @ \cup {[customer |-> 1, status |-> "ACTIVE"]}])
    \/ /\ db.plans # {}
       /\ Written([db EXCEPT !.plans = {}])
    \/ /\ db.plans # {}
       /\ Written([db EXCEPT !.plans = {},
                             !.customers = {[c EXCEPT !.sponsorship_pending = TRUE] : c \in @}])

StartBuild ==
    /\ pc = "idle"
    /\ pc' = "start"
    /\ observed' = {db}
    /\ UNCHANGED <<inputs, db, writes, queues, calls, locals>>

InitConcurrent ==
    /\ settings = Settings(TRUE, TRUE)
    /\ request \in {Request(None, Some("website")), Request(None, None)}
    /\ user_profile \in {None, Some(UserProfile(TRUE, FALSE, "LIMITED"))}
    /\ realm = Realm("LIMITED")
    /\ display = Display
    /\ \E n \in {x \in Narrows : IsNone(x[3])} :
          /\ narrow = n[1]
          /\ narrow_stream = n[2]
          /\ narrow_topic = n[3]
    /\ event_state \in {e \in EventStates :
                          /\ ~Has(e, "narrow")
                          /\ Has(e["user_settings"], "enable_desktop_notifications")
                          /\ e["user_settings"]["enable_desktop_notifications"]}
    /\ now = [sec |-> 172800, usec |-> 500000]
    /\ db = [EmptyDb EXCEPT !.devices = {1}]
    /\ observed = {db}
    /\ writes = 0
    /\ pc = "idle"
    /\ InitLocals

NextConcurrent ==
    \/ StartBuild
    \/ Build
    \/ SendMessage
    \/ RecordActivity
    \/ BillingChange

SpecConcurrent == InitConcurrent /\ [][NextConcurrent]_vars

\* What the snapshot's fields are when computed from data-store state S.
ShowBillingOf(S) ==
    /\ BillingAccess
    /\ \E c \in RealmCustomers(S) :
          \/ c.sponsorship_pending
          \/ \E p \in S.plans : p.customer = c.id

ShowPlansOf(S) ==
    /\ settings.CORPORATE_ENABLED
    /\ ~IsNone(user_profile)
    /\ ~Val(user_profile).is_guest
    /\ Val(user_profile).realm.plan_type = "LIMITED"

FurthestReadTimeOf(S) ==
    IF UserActivities(S) = {} THEN None
    ELSE Some(Number(CHOOSE t \in LatestVisitSeconds(S) : TRUE))

MaxMessageIdOf(S) ==
    LET ids == {m.id : m \in {x \in S.messages : x.recipient = Val(narrow_stream).recipient}}
    IN  IF ids = {} THEN -1 ELSE CHOOSE i \in ids : \A j \in ids : j <= i

\* The returned snapshot is the view of the one data-store state S.
ViewOf(S) ==
    /\ Snapshot["user_settings"]["default_language"]
          = event_state["user_settings"]["default_language"]
    /\ IsNone(narrow_stream) =>
          \A k \in DOMAIN event_state : Snapshot[k] = event_state[k]
    /\ ~IsNone(user_profile) => Snapshot["furthest_read_time"] = FurthestReadTimeOf(S)
    /\ Snapshot["show_billing"] = ShowBillingOf(S)
    /\ Snapshot["show_plans"] = ShowPlansOf(S)
    /\ Snapshot["show_webathena"] =
          (~IsNone(user_profile) /\ Val(user_profile).realm.webathena_enabled)
    /\ ~IsNone(narrow_stream) => Snapshot["max_message_id"] = MaxMessageIdOf(S)

\* C6, as stated: for every build there is one data-store state S, reached
\* during the build, of which the returned snapshot is the view, also when
\* other sessions write to the store during the build.
C6_PointInTimeView == Built => \E S \in observed : ViewOf(S)

\* A build whose two billing queries straddle a write: it returns
\* show_billing = FALSE though every store state it ran beside gives TRUE.
C6_Witness ==
    /\ Built
    /\ ~IsNone(user_profile)
    /\ Snapshot["show_billing"] = FALSE
    /\ \A S \in observed : ShowBillingOf(S) = TRUE

=============================================================================
